---- MODULE Spec2Model ----
(***************************************************************************)
(* A model of openeval_validator.py: the tag classifier (_tag_parts,       *)
(* _classify), the recursive validator (_validate) and the entry point     *)
(* (validate_entry) with its process-wide schema cache.                    *)
(*                                                                         *)
(* Python values are records [t |-> <type name>, v |-> <payload>].  A dict *)
(* keeps its insertion order (as json.load builds it): its payload is a    *)
(* sequence of <<key, value>> pairs with distinct keys.  Python strings    *)
(* are TLA+ strings; the str methods the code uses are the operators       *)
(* below, with Python's 0-based indices and slice rules.                   *)
(***************************************************************************)
EXTENDS Integers, Sequences, FiniteSets, TLC

\* Longest list a generated record holds.
MaxLen == 2

(***************************************************************************)
(* Python values                                                           *)
(***************************************************************************)
PyInt(n) == [t |-> "int", v |-> n]
\* A float with a fractional part; the payload is the value times ten.
PyFloat(n) == [t |-> "float", v |-> n]
PyBool(b) == [t |-> "bool", v |-> b]
PyStr(s) == [t |-> "str", v |-> s]
PyList(xs) == [t |-> "list", v |-> xs]
PyDict(kvs) == [t |-> "dict", v |-> kvs]
None == [t |-> "NoneType", v |-> 0]

\* isinstance(x, cls) for one class: bool is a subclass of int.
isinstance(x, cls) ==
    \/ x.t = cls
    \/ (x.t = "bool" /\ cls = "int")

\* isinstance(x, (c1, c2, ...)) for a tuple of classes.
isinstance_any(x, classes) ==
    \E i \in 1..Len(classes) : isinstance(x, classes[i])

\* `key in d` for a dict d.
has_key(d, key) ==
    \E i \in 1..Len(d.v) : d.v[i][1] = key

\* d[key] for a dict d that holds key.
get_item(d, key) ==
    LET i == CHOOSE j \in 1..Len(d.v) : d.v[j][1] = key
    IN  d.v[i][2]

(***************************************************************************)
(* Python str methods                                                      *)
(***************************************************************************)
\* s.startswith(prefix)
startswith(s, prefix) ==
    /\ Len(prefix) <= Len(s)
    /\ SubSeq(s, 1, Len(prefix)) = prefix

\* s.endswith(suffix)
endswith(s, suffix) ==
    /\ Len(suffix) <= Len(s)
    /\ SubSeq(s, Len(s) - Len(suffix) + 1, Len(s)) = suffix

\* s.find(sub): the lowest 0-based index where sub occurs, -1 when none.
find(s, sub) ==
    LET hits == {i \in 0..(Len(s) - Len(sub)) : SubSeq(s, i + 1, i + Len(sub)) = sub}
    IN  IF hits = {} THEN -1
        ELSE CHOOSE i \in hits : \A j \in hits : i <= j

\* s.rfind(sub): the highest 0-based index where sub occurs, -1 when none.
rfind(s, sub) ==
    LET hits == {i \in 0..(Len(s) - Len(sub)) : SubSeq(s, i + 1, i + Len(sub)) = sub}
    IN  IF hits = {} THEN -1
        ELSE CHOOSE i \in hits : \A j \in hits : i >= j

\* A slice bound as Python normalises it: negative counts from the end,
\* then clamped to 0..len.
slice_index(n, len) ==
    LET m == IF n < 0 THEN n + len ELSE n
    IN  IF m < 0 THEN 0 ELSE IF m > len THEN len ELSE m

\* s[lo:hi]
slice(s, lo, hi) ==
    LET a == slice_index(lo, Len(s))
        b == slice_index(hi, Len(s))
    IN  IF a >= b THEN "" ELSE SubSeq(s, a + 1, b)

\* s[lo:]
slice_from(s, lo) == slice(s, lo, Len(s))

RECURSIVE split(_, _)
\* s.split(sep) for a non-empty separator.
split(s, sep) ==
    LET i == find(s, sep)
    IN  IF i = -1 THEN <<s>>
        ELSE <<slice(s, 0, i)>> \o split(slice_from(s, i + Len(sep)), sep)

Whitespace == {" ", "\t", "\n", "\r"}

RECURSIVE lstrip(_)
lstrip(s) ==
    IF Len(s) > 0 /\ SubSeq(s, 1, 1) \in Whitespace THEN lstrip(SubSeq(s, 2, Len(s)))
    ELSE s

RECURSIVE rstrip(_)
rstrip(s) ==
    IF Len(s) > 0 /\ SubSeq(s, Len(s), Len(s)) \in Whitespace
    THEN rstrip(SubSeq(s, 1, Len(s) - 1))
    ELSE s

\* s.strip()
strip(s) == rstrip(lstrip(s))

\* [f(x) for x in xs] with f = strip
strip_all(xs) == [i \in 1..Len(xs) |-> strip(xs[i])]

\* `x in xs` for a list xs.
in_list(x, xs) == \E i \in 1..Len(xs) : xs[i] = x

(***************************************************************************)
(* Tag classifier                                                          *)
(***************************************************************************)
\* _tag_parts(schema_str): the trimmed comma-separated tokens of the tag.
_tag_parts(schema_str) ==
    LET first == find(schema_str, "] ")
        close == IF first = -1 THEN rfind(schema_str, "]") ELSE first
    IN  strip_all(split(slice(schema_str, 1, close), ","))

\* {t.strip() for t in token.split(' or ')}
type_tokens_of(token) ==
    LET ts == split(token, " or ")
    IN  {strip(ts[i]) : i \in 1..Len(ts)}

NumericTokens == {"int", "float", "bool"}

\* Mutant of _classify_str: auto and optional count only as the first token.
_classify_str_first_token(schema_str) ==
    LET parts == _tag_parts(schema_str)
        type_tokens == type_tokens_of(parts[1])
    IN  IF parts[1] = "auto" THEN "auto"
        ELSE IF parts[1] = "optional" THEN "optional"
        ELSE IF startswith(parts[1], "list[") THEN "required_list_str"
        ELSE IF parts[1] = "any" THEN "required_any"
        ELSE IF type_tokens # {} /\ type_tokens \subseteq NumericTokens
             THEN "required_numeric"
        ELSE "required_str"

\* _classify for a schema string.
_classify_str(schema_str) ==
    LET parts == _tag_parts(schema_str)
        type_tokens == type_tokens_of(parts[1])
    IN  IF in_list("auto", parts) THEN "auto"
        ELSE IF in_list("optional", parts) THEN "optional"
        ELSE IF startswith(parts[1], "list[") THEN "required_list_str"
        ELSE IF parts[1] = "any" THEN "required_any"
        ELSE IF type_tokens # {} /\ type_tokens \subseteq NumericTokens
             THEN "required_numeric"
        ELSE "required_str"

\* _classify for a non-empty schema list (a sequence template).
_classify_list(item) ==
    IF item.t = "str" THEN
        LET parts == _tag_parts(item.v)
        IN  IF in_list("auto", parts) \/ in_list("optional", parts) THEN "optional"
            ELSE "required_list_str"
    ELSE IF item.t = "dict" THEN "required_list_dict"
    ELSE "auto"

\* _classify(schema_value)
_classify(schema_value) ==
    IF schema_value.t = "str" THEN _classify_str(schema_value.v)
    ELSE IF schema_value.t = "dict" THEN "required_dict"
    ELSE IF schema_value.t = "list" /\ Len(schema_value.v) > 0
         THEN _classify_list(schema_value.v[1])
    ELSE "auto"

(***************************************************************************)
(* Recursive validator                                                     *)
(***************************************************************************)
\* One entry of the violations list.
violation(field, field_desc, violation_type) ==
    [field |-> field, field_desc |-> field_desc, violation_type |-> violation_type]

\* Mutant of append: the violation goes to the front of the list.
prepend(violations, v) == <<v>> \o violations

\* violations.append(v)
append(violations, v) == Append(violations, v)

\* The field_desc of the violation for a value that is not a dict.
ItemDesc == PyStr("OPENEVAL ITEM IN JSON FORMAT")

\* The three violations of a field: key absent (KeyError), wrong type
\* (TypeError), null or empty (ValueError).
\* Mutant of missing: an absent key is reported like a null value.
missing_as_null(violations, field_path, schema_value) ==
    append(violations, violation(field_path, schema_value, "ValueError"))

missing(violations, field_path, schema_value) ==
    append(violations, violation(field_path, schema_value, "KeyError"))

mismatch(violations, field_path, schema_value) ==
    append(violations, violation(field_path, schema_value, "TypeError"))

null_or_empty(violations, field_path, schema_value) ==
    append(violations, violation(field_path, schema_value, "ValueError"))

\* Mutant of field_path_of: the path of the enclosing object is dropped.
field_path_no_parent(path, key) == key

\* field_path = f"{path}.{key}" if path else key
field_path_of(path, key) ==
    IF path # "" THEN path \o "." \o key ELSE key

\* f"{field_path}[{i}]", i counted from 0 as enumerate does.
elem_path(field_path, i) ==
    field_path \o "[" \o ToString(i) \o "]"

\* Mutant of needs_non_empty: '_content' anywhere in the key.
needs_non_empty_contains(key) ==
    find(key, "_content") # -1 \/ key = "responses"

\* key.endswith('_content') or key == 'responses'
needs_non_empty(key) ==
    endswith(key, "_content") \/ key = "responses"

\* Mutant of numeric_valid: a boolean passes for an int, as isinstance says.
numeric_valid_bool_is_int(v, type_tokens) ==
    \/ ("bool" \in type_tokens /\ isinstance(v, "bool"))
    \/ ("int" \in type_tokens /\ isinstance(v, "int"))
    \/ ("float" \in type_tokens /\ isinstance_any(v, <<"int", "float">>))

\* The `valid` flag of the required_numeric branch.
numeric_valid(v, type_tokens) ==
    \/ ("bool" \in type_tokens /\ isinstance(v, "bool"))
    \/ ("int" \in type_tokens /\ isinstance(v, "int") /\ ~isinstance(v, "bool"))
    \/ ("float" \in type_tokens
            /\ isinstance_any(v, <<"int", "float">>) /\ ~isinstance(v, "bool"))

\* inner_type_str of the required_list_str branch; None is "" (both falsy).
inner_type_str_of(schema_value) ==
    IF schema_value.t = "str" THEN slice(_tag_parts(schema_value.v)[1], 5, -1)
    ELSE IF schema_value.t = "list" /\ Len(schema_value.v) > 0
         THEN _tag_parts(schema_value.v[1].v)[1]
    ELSE ""

\* The keys of _type_map; each maps to the class of the same name.
TypeMapKeys == {"str", "dict", "int", "float", "bool"}

\* allowed = tuple(_type_map[t.strip()] for t in ... if t.strip() in _type_map)
allowed_of(inner_type_str) ==
    LET InMap(t) == t \in TypeMapKeys
    IN  SelectSeq(strip_all(split(inner_type_str, " or ")), InMap)

RECURSIVE check_elems(_, _, _, _, _, _)
\* for i, elem in enumerate(data[key]): if not isinstance(elem, allowed): append
\* (i is the 1-based position of the next element).
check_elems(elems, allowed, field_path, schema_value, violations, i) ==
    IF i > Len(elems) THEN violations
    ELSE check_elems(elems, allowed, field_path, schema_value,
            IF ~isinstance_any(elems[i], allowed)
            THEN mismatch(violations, elem_path(field_path, i - 1), schema_value)
            ELSE violations,
            i + 1)

\* The element checks of the required_list_str branch (lines after the
\* emptiness check).
list_str_elems(value, schema_value, field_path, violations) ==
    LET inner_type_str == inner_type_str_of(schema_value)
        allowed == allowed_of(inner_type_str)
    IN  IF inner_type_str # "" /\ Len(allowed) > 0
        THEN check_elems(value.v, allowed, field_path, schema_value, violations, 1)
        ELSE violations

\* The emptiness check shared by the two list branches.
list_non_empty(key, value, schema_value, field_path, violations) ==
    IF needs_non_empty(key) /\ Len(value.v) = 0
    THEN null_or_empty(violations, field_path, schema_value)
    ELSE violations

RECURSIVE _validate(_, _, _, _)
RECURSIVE validate_items(_, _, _, _, _)
RECURSIVE validate_elems(_, _, _, _, _)

\* The body of `for key, schema_value in schema.items()`: the violations
\* list after the iteration for one key.
validate_key(data, key, schema_value, violations, path) ==
    LET field_path == field_path_of(path, key)
        kind == _classify(schema_value)
        absent == ~has_key(data, key)
        value == get_item(data, key)
    IN  IF kind \in {"auto", "optional"} THEN violations
        ELSE IF kind = "required_str" THEN
            IF absent THEN missing(violations, field_path, schema_value)
            ELSE IF value = None THEN null_or_empty(violations, field_path, schema_value)
            ELSE IF ~isinstance(value, "str")
                 THEN mismatch(violations, field_path, schema_value)
            ELSE violations
        ELSE IF kind = "required_any" THEN
            IF absent THEN missing(violations, field_path, schema_value)
            ELSE violations
        ELSE IF kind = "required_numeric" THEN
            IF absent THEN missing(violations, field_path, schema_value)
            ELSE IF ~numeric_valid(value, type_tokens_of(_tag_parts(schema_value.v)[1]))
                 THEN mismatch(violations, field_path, schema_value)
            ELSE violations
        ELSE IF kind = "required_dict" THEN
            IF absent THEN missing(violations, field_path, schema_value)
            ELSE IF ~isinstance(value, "dict")
                 THEN mismatch(violations, field_path, schema_value)
            ELSE _validate(value, schema_value, violations, field_path)
        ELSE IF kind = "required_list_str" THEN
            IF absent THEN missing(violations, field_path, schema_value)
            ELSE IF ~isinstance(value, "list")
                 THEN mismatch(violations, field_path, schema_value)
            ELSE list_str_elems(value, schema_value, field_path,
                    list_non_empty(key, value, schema_value, field_path, violations))
        ELSE IF kind = "required_list_dict" THEN
            IF absent THEN missing(violations, field_path, schema_value)
            ELSE IF ~isinstance(value, "list")
                 THEN mismatch(violations, field_path, schema_value)
            ELSE validate_elems(value.v, schema_value.v[1], field_path,
                    list_non_empty(key, value, schema_value, field_path, violations),
                    1)
        ELSE violations

\* for i, item in enumerate(data[key]): _validate(item, template, violations,
\* f"{field_path}[{i}]")   (i is the 1-based position of the next element).
validate_elems(items, template, field_path, violations, i) ==
    IF i > Len(items) THEN violations
    ELSE validate_elems(items, template, field_path,
            _validate(items[i], template, violations, elem_path(field_path, i - 1)),
            i + 1)

\* Mutant of validate_items: the loop ends at the first violation.
validate_items_stop(data, schema, violations, path, i) ==
    IF i > Len(schema.v) \/ Len(violations) > 0 THEN violations
    ELSE validate_items(data, schema,
            validate_key(data, schema.v[i][1], schema.v[i][2], violations, path),
            path, i + 1)

\* for key, schema_value in schema.items(): ...   from the i-th item on.
validate_items(data, schema, violations, path, i) ==
    IF i > Len(schema.v) THEN violations
    ELSE validate_items(data, schema,
            validate_key(data, schema.v[i][1], schema.v[i][2], violations, path),
            path, i + 1)

\* The violation _validate appends for a value that is not a dict.
not_object(violations, path) ==
    append(violations, violation(path, ItemDesc, "TypeError"))

\* Mutant of _validate: the guard records its violation and does not return.
_validate_no_return(data, schema, violations, path) ==
    IF ~isinstance(data, "dict")
    THEN validate_items(PyDict(<<>>), schema, not_object(violations, path), path, 1)
    ELSE validate_items(data, schema, violations, path, 1)

\* _validate(data, schema, violations, path): the violations list when the
\* call returns.
_validate(data, schema, violations, path) ==
    IF ~isinstance(data, "dict") THEN not_object(violations, path)
    ELSE validate_items(data, schema, violations, path, 1)

(***************************************************************************)
(* Inputs: the schema documents item_schema.json may hold and, for each,   *)
(* the records validate_entry is called with.                              *)
(***************************************************************************)
\* One value of each scalar JSON type.
Atoms == {PyInt(3), PyFloat(35), PyBool(TRUE), PyStr("3"), None}

\* One value of every JSON type.
AnyType == Atoms \cup {PyList(<<>>), PyDict(<<>>)}

\* The lists of at most n elements drawn from elems.
PyLists(elems, n) ==
    {PyList(xs) : xs \in UNION {[1..k -> elems] : k \in 0..n}}

RECURSIVE ItemSeqs(_)
\* The item sequences that hold, for each <<key, candidates>> of cands and
\* in that order, either nothing or the key with one of its candidates.
ItemSeqs(cands) ==
    IF Len(cands) = 0 THEN {<<>>}
    ELSE LET rest == ItemSeqs(Tail(cands))
         IN  rest \cup {<<<<Head(cands)[1], val>>>> \o r : val \in Head(cands)[2], r \in rest}

PyDicts(cands) == {PyDict(kvs) : kvs \in ItemSeqs(cands)}

\* Roots that are not JSON objects.
NonObjects == AnyType \ {PyDict(<<>>)}

\* The example of the specification's section 8.
ExampleSchema ==
    PyDict(<< <<"id", PyStr("[auto] id")>>,
              <<"title", PyStr("title text")>>,
              <<"scores", PyList(<<PyStr("[int or float] a score")>>)>>,
              <<"tags_content", PyList(<<PyStr("tag text")>>)>> >>)

ExampleEntries ==
    PyDicts(<< <<"id", {None}>>,
               <<"title", {PyStr("t"), PyInt(5)}>>,
               <<"scores", {PyStr("x")}
                    \cup PyLists({PyStr("x"), PyInt(3), PyBool(TRUE)}, MaxLen)>>,
               <<"tags_content", {None} \cup PyLists({PyStr("tag")}, MaxLen)>> >>)

\* Nested objects and a list of objects.
NestedSchema ==
    PyDict(<< <<"item_metadata",
                PyDict(<< <<"contributor",
                            PyDict(<< <<"email", PyStr("email text")>>,
                                      <<"age", PyStr("[int] age")>> >>)>>,
                          <<"source", PyStr("[any] source")>> >>)>>,
              <<"responses",
                PyList(<<PyDict(<< <<"text", PyStr("response text")>>,
                                   <<"info",
                                     PyDict(<< <<"notes_content",
                                                 PyStr("[list[str]] notes")>> >>)>> >>)>>)>> >>)

ContributorValues ==
    {PyStr("x")} \cup PyDicts(<< <<"email", {PyStr("e"), None, PyInt(3)}>>,
                                 <<"age", {PyInt(3), PyStr("3")}>> >>)

ResponseValues ==
    { PyStr("x"),
      PyDict(<< <<"text", PyStr("r")>>,
                <<"info", PyDict(<< <<"notes_content", PyList(<<PyStr("n"), PyInt(3)>>)>> >>)>> >>),
      PyDict(<< <<"text", None>>,
                <<"info", PyDict(<< <<"notes_content", PyList(<<>>)>> >>)>> >>),
      PyDict(<< <<"info", PyDict(<<>>)>> >>) }

NestedEntries ==
    PyDicts(<< <<"item_metadata",
                 {PyList(<<>>)} \cup PyDicts(<< <<"contributor", ContributorValues>>,
                                                <<"source", {None}>> >>)>>,
               <<"responses", {PyStr("x")} \cup PyLists(ResponseValues, MaxLen)>> >>)

\* Numeric tags.
NumericSchemaA ==
    PyDict(<< <<"count", PyStr("[int] count")>>, <<"ratio", PyStr("[float] ratio")>> >>)

NumericSchemaB ==
    PyDict(<< <<"flag", PyStr("[bool] flag")>>,
              <<"score", PyStr("[int or float] score")>> >>)

NumericSchemaC ==
    PyDict(<< <<"level", PyStr("[bool or int] level")>>,
              <<"weight", PyStr("[float or bool] weight")>> >>)

NumericEntries(schema) ==
    PyDicts(<< <<schema.v[1][1], AnyType>>, <<schema.v[2][1], AnyType>> >>)

\* Tags with an auto or optional token, beside a required field.
SkipSchemaA ==
    PyDict(<< <<"id", PyStr("[auto] id")>>,
              <<"note", PyStr("[str, optional] note")>>,
              <<"name", PyStr("[any] name")>> >>)

SkipEntriesA ==
    PyDicts(<< <<"id", AnyType>>, <<"note", AnyType>>, <<"name", {PyStr("n"), None}>> >>)

SkipSchemaB ==
    PyDict(<< <<"aliases", PyStr("[list[str], optional] aliases")>>,
              <<"rank", PyStr("[auto, int] rank")>>,
              <<"extras_content", PyList(<<PyStr("[optional] extra")>>)>> >>)

SkipEntriesB ==
    PyDicts(<< <<"aliases", AnyType>>, <<"rank", AnyType>>,
               <<"extras_content", {None, PyList(<<>>), PyList(<<PyInt(3)>>)}>> >>)

SkipSchemaC ==
    PyDict(<< <<"history", PyList(<<PyStr("[dict, auto] step")>>)>>,
              <<"misc", PyList(<<>>)>>,
              <<"title", PyStr("title text")>> >>)

SkipEntriesC ==
    PyDicts(<< <<"history", AnyType \cup {PyList(<<PyInt(3)>>)}>>,
               <<"misc", {None}>>,
               <<"title", {PyStr("t")}>> >>)

\* The tags as the validate_entry docstring writes them.
UpperSchema ==
    PyDict(<< <<"id", PyStr("[AUTO] id")>>,
              <<"comment", PyStr("[OPTIONAL] comment")>>,
              <<"title", PyStr("title text")>> >>)

UpperEntries ==
    PyDicts(<< <<"id", {PyStr("i"), PyInt(3)}>>,
               <<"comment", {PyStr("c")}>>,
               <<"title", {PyStr("t")}>> >>)

\* A single list field, its elements of every type.
ListSchema(key, schema_value) == PyDict(<< <<key, schema_value>> >>)

ListEntries(key) ==
    PyDicts(<< <<key, {None, PyStr("x")} \cup PyLists(AnyType, MaxLen)>> >>)

ListSchemas ==
    << ListSchema("aliases", PyStr("[list[str]] aliases")),
       ListSchema("counts", PyStr("[list[int]] counts")),
       ListSchema("ratios_content", PyStr("[list[float]] ratios")),
       ListSchema("flags", PyStr("[list[bool]] flags")),
       ListSchema("responses", PyList(<<PyStr("[str or dict] response")>>)),
       ListSchema("tags_content_ids", PyStr("[list[list[str]]] ids")) >>

\* Each schema document with the records given to validate_entry under it.
Scenarios ==
    << [schema |-> ExampleSchema, entries |-> ExampleEntries],
       [schema |-> NestedSchema, entries |-> NestedEntries],
       [schema |-> NumericSchemaA, entries |-> NumericEntries(NumericSchemaA)],
       [schema |-> NumericSchemaB, entries |-> NumericEntries(NumericSchemaB)],
       [schema |-> NumericSchemaC, entries |-> NumericEntries(NumericSchemaC)],
       [schema |-> SkipSchemaA, entries |-> SkipEntriesA],
       [schema |-> SkipSchemaB, entries |-> SkipEntriesB],
       [schema |-> SkipSchemaC, entries |-> SkipEntriesC],
       [schema |-> UpperSchema, entries |-> UpperEntries] >>
    \o [i \in 1..Len(ListSchemas) |->
            [schema |-> ListSchemas[i], entries |-> ListEntries(ListSchemas[i].v[1][1])]]

Schemas == {Scenarios[i].schema : i \in 1..Len(Scenarios)}

\* The records validate_entry may be called with under a schema document.
Entries(schema) ==
    NonObjects \cup UNION {Scenarios[i].entries :
                              i \in {j \in 1..Len(Scenarios) : Scenarios[j].schema = schema}}

(***************************************************************************)
(* The program: validate_entry called on one record after another, as the  *)
(* __main__ loop does.  The for loop of the root _validate call advances   *)
(* one schema item per step; the nested calls are the operators above.     *)
(***************************************************************************)
VARIABLES
    item_schema,      \* the document in item_schema.json
    _schema_cache,    \* the module global: None until the first load
    entry,            \* the record of the current validate_entry call
    violations,       \* the list validate_entry hands to _validate
    idx,              \* position of the root call's for loop in schema.items()
    pc,               \* "idle" | "validate" | "return" | "done"
    result            \* what validate_entry returned; read only when pc = "done"

vars == <<item_schema, _schema_cache, entry, violations, idx, pc, result>>

\* No validate_entry call returns this: not valid, with no violation.
NoResult == [is_valid |-> FALSE, violations |-> <<>>]

\* _load_schema(): the cache after the call (which is also what it returns).
_load_schema(cache, file) ==
    IF cache = None THEN file ELSE cache

Init ==
    /\ item_schema \in Schemas
    /\ _schema_cache = None
    /\ entry = None
    /\ violations = <<>>
    /\ idx = 1
    /\ pc = "idle"
    /\ result = NoResult

\* validate_entry(e) up to its call of _validate: the schema is loaded (once
\* per process) and a fresh violations list is made.
Call(e) ==
    /\ entry' = e
    /\ _schema_cache' = _load_schema(_schema_cache, item_schema)
    /\ violations' = <<>>
    /\ idx' = 1
    /\ pc' = "validate"
    /\ result' = NoResult
    /\ UNCHANGED item_schema

\* _validate's guard at the root: the record is not a dict.
NotObject ==
    /\ pc = "validate"
    /\ ~isinstance(entry, "dict")
    /\ violations' = not_object(violations, "")
    /\ pc' = "return"
    /\ UNCHANGED <<item_schema, _schema_cache, entry, idx, result>>

\* One iteration of the root call's for loop.
ValidateKey ==
    /\ pc = "validate"
    /\ isinstance(entry, "dict")
    /\ idx <= Len(_schema_cache.v)
    /\ violations' = validate_key(entry, _schema_cache.v[idx][1], _schema_cache.v[idx][2],
                                  violations, "")
    /\ idx' = idx + 1
    /\ UNCHANGED <<item_schema, _schema_cache, entry, pc, result>>

\* The root call's for loop is exhausted: _validate returns.
LoopEnd ==
    /\ pc = "validate"
    /\ isinstance(entry, "dict")
    /\ idx > Len(_schema_cache.v)
    /\ pc' = "return"
    /\ UNCHANGED <<item_schema, _schema_cache, entry, violations, idx, result>>

\* return len(violations) == 0, violations
Return ==
    /\ pc = "return"
    /\ result' = [is_valid |-> (Len(violations) = 0), violations |-> violations]
    /\ pc' = "done"
    /\ UNCHANGED <<item_schema, _schema_cache, entry, violations, idx>>

\* The __main__ loop prints the result and goes on to its next example; the
\* locals of the finished call are gone.
NextExample ==
    /\ pc = "done"
    /\ entry' = None
    /\ violations' = <<>>
    /\ idx' = 1
    /\ pc' = "idle"
    /\ result' = NoResult
    /\ UNCHANGED <<item_schema, _schema_cache>>

Next ==
    \/ (pc = "idle" /\ \E e \in Entries(item_schema) : Call(e))
    \/ NotObject
    \/ ValidateKey
    \/ LoopEnd
    \/ Return
    \/ NextExample

Spec == Init /\ [][Next]_vars

(***************************************************************************)
(* Properties.  They are stated over the walk a validation makes: a visit  *)
(* is one schema field met at one object of the record, with the keys and  *)
(* list indices that lead to it from the record root.                      *)
(***************************************************************************)
\* One step of the way from the record root: a key, or an index into a list.
KeySeg(key) == [key |-> key, index |-> -1]
IndexSeg(i) == [key |-> "", index |-> i]

RECURSIVE Render(_)
\* The way written out: keys joined by ".", an index as "[N]".
Render(segs) ==
    IF Len(segs) = 0 THEN ""
    ELSE LET last == segs[Len(segs)]
             front == Render(SubSeq(segs, 1, Len(segs) - 1))
         IN  IF last.index >= 0 THEN front \o "[" \o ToString(last.index) \o "]"
             ELSE IF Len(segs) = 1 THEN last.key
             ELSE front \o "." \o last.key

Absent(obj, key) == \A i \in 1..Len(obj.v) : obj.v[i][1] # key
ValueOf(obj, key) == obj.v[CHOOSE i \in 1..Len(obj.v) : obj.v[i][1] = key][2]

RECURSIVE Visits(_, _, _)
\* The visits of validating the object obj against the schema mapping schema,
\* obj being reached from the root by segs.
Visits(obj, schema, segs) ==
    LET n == Len(schema.v)
        key(i) == schema.v[i][1]
        sv(i) == schema.v[i][2]
        here(i) == Append(segs, KeySeg(key(i)))
        objects == {i \in 1..n : /\ sv(i).t = "dict"
                                 /\ ~Absent(obj, key(i))
                                 /\ ValueOf(obj, key(i)).t = "dict"}
        lists == {i \in 1..n : /\ sv(i).t = "list"
                               /\ Len(sv(i).v) > 0
                               /\ sv(i).v[1].t = "dict"
                               /\ ~Absent(obj, key(i))
                               /\ ValueOf(obj, key(i)).t = "list"}
    IN  {[obj |-> obj, key |-> key(i), sv |-> sv(i), n |-> i, parent |-> segs,
          segs |-> here(i)] : i \in 1..n}
        \cup UNION {Visits(ValueOf(obj, key(i)), sv(i), here(i)) : i \in objects}
        \cup UNION {UNION {Visits(ValueOf(obj, key(i)).v[j], sv(i).v[1],
                                  Append(here(i), IndexSeg(j - 1))) :
                             j \in {k \in 1..Len(ValueOf(obj, key(i)).v) :
                                      ValueOf(obj, key(i)).v[k].t = "dict"}} :
                    i \in lists}

\* The visits of the current validate_entry call.
EntryVisits ==
    IF entry.t = "dict" /\ _schema_cache.t = "dict"
    THEN Visits(entry, _schema_cache, <<>>)
    ELSE {}

\* The elements of required object lists that are not objects, each by its
\* way from the root.
NonObjectElems ==
    UNION {{Append(p.segs, IndexSeg(j - 1)) :
                j \in {k \in 1..Len(ValueOf(p.obj, p.key).v) :
                         ValueOf(p.obj, p.key).v[k].t # "dict"}} :
           p \in {q \in EntryVisits : /\ _classify(q.sv) = "required_list_dict"
                                      /\ ~Absent(q.obj, q.key)
                                      /\ ValueOf(q.obj, q.key).t = "list"}}

\* A violation's field is at the path, or beneath it.
Under(field, path) ==
    \/ field = path
    \/ (Len(field) > Len(path) /\ SubSeq(field, 1, Len(path)) = path
            /\ SubSeq(field, Len(path) + 1, Len(path) + 1) \in {".", "["})

\* The violations of vs at or beneath path, in their order.
SelectUnder(vs, path) ==
    LET Is(v) == Under(v.field, path)
    IN  SelectSeq(vs, Is)

RequiredKinds ==
    {"required_str", "required_any", "required_numeric", "required_dict",
     "required_list_str", "required_list_dict"}

Done == pc = "done"

\* The object with only the given key left (or empty, when it lacks the key).
OnlyKey(obj, key) ==
    LET Is(kv) == kv[1] = key
    IN  PyDict(SelectSeq(obj.v, Is))

\* The object with every element of the list at key replaced by the j-th.
AllLike(obj, key, j) ==
    PyDict([i \in 1..Len(obj.v) |->
              IF obj.v[i][1] = key
              THEN <<key, PyList([k \in 1..Len(obj.v[i][2].v) |-> obj.v[i][2].v[j]])>>
              ELSE obj.v[i]])

RECURSIVE Concat(_)
Concat(seqs) == IF Len(seqs) = 0 THEN <<>> ELSE Head(seqs) \o Concat(Tail(seqs))

\* What the loop body reports for the field of a visit alone: on an object
\* stripped of every sibling, into an empty list.
Alone(p) ==
    validate_key(OnlyKey(p.obj, p.key), p.key, p.sv, <<>>, Render(p.parent))

\* C1: every declared field is checked in one pass.  The violations at or
\* beneath a field (at any depth of the record) are those the field yields
\* with all its siblings removed; the violations at or beneath one list
\* element are those it yields whatever the other elements are; and the
\* result is these, field after field, with none left out.
C1_AllFieldsChecked ==
    Done /\ entry.t = "dict" =>
        /\ \A p \in EntryVisits :
              SelectUnder(result.violations, Render(p.segs)) = Alone(p)
        /\ \A p \in EntryVisits :
              (~Absent(p.obj, p.key) /\ ValueOf(p.obj, p.key).t = "list") =>
                 \A j \in 1..Len(ValueOf(p.obj, p.key).v) :
                    LET at == Render(Append(p.segs, IndexSeg(j - 1)))
                    IN  SelectUnder(result.violations, at)
                          = SelectUnder(validate_key(AllLike(p.obj, p.key, j), p.key, p.sv,
                                                     <<>>, Render(p.parent)), at)
        /\ result.violations
             = Concat([i \in 1..Len(_schema_cache.v) |->
                         SelectUnder(result.violations, _schema_cache.v[i][1])])

\* Sibling fields are in violation at two levels of one record, and so are
\* two elements of one list.
C1_Witness ==
    /\ Done
    /\ \E p, q \in EntryVisits :
          /\ p.parent = q.parent /\ p.n < q.n /\ Len(p.parent) > 0
          /\ Len(Alone(p)) > 0 /\ Len(Alone(q)) > 0
    /\ \E p, q \in EntryVisits :
          /\ p.parent = <<>> /\ q.parent = <<>> /\ p.n < q.n
          /\ Len(Alone(p)) > 0 /\ Len(Alone(q)) > 0
    /\ \E p \in EntryVisits :
          /\ ~Absent(p.obj, p.key) /\ ValueOf(p.obj, p.key).t = "list"
          /\ Len(ValueOf(p.obj, p.key).v) >= 2
          /\ \A j \in 1..2 :
                Len(SelectUnder(result.violations,
                                Render(Append(p.segs, IndexSeg(j - 1))))) > 0

\* C2: a required field whose key is absent from its object yields exactly
\* one violation at or beneath its path: a KeyError at the path itself.
C2_MissingRequired ==
    Done =>
        \A p \in EntryVisits :
            (_classify(p.sv) \in RequiredKinds /\ Absent(p.obj, p.key)) =>
                LET under == SelectUnder(result.violations, Render(p.segs))
                IN  /\ Len(under) = 1
                    /\ under[1].field = Render(p.segs)
                    /\ under[1].violation_type = "KeyError"

\* Required fields of three kinds are absent, one of them inside a nested
\* object.
C2_Witness ==
    /\ Done
    /\ \A kind \in {"required_dict", "required_any", "required_list_dict"} :
          \E p \in EntryVisits : _classify(p.sv) = kind /\ Absent(p.obj, p.key)
    /\ \E p \in EntryVisits :
          Len(p.parent) > 0 /\ _classify(p.sv) \in RequiredKinds /\ Absent(p.obj, p.key)

\* The tag of a schema string has a token equal to auto or optional.
HasSkipToken(schema_str) ==
    LET parts == _tag_parts(schema_str)
    IN  \E i \in 1..Len(parts) : parts[i] \in {"auto", "optional"}

\* A tagged string with such a token, or a sequence template of one.
SkipTagged(sv) ==
    \/ (sv.t = "str" /\ HasSkipToken(sv.v))
    \/ (sv.t = "list" /\ Len(sv.v) > 0 /\ sv.v[1].t = "str" /\ HasSkipToken(sv.v[1].v))

\* Tags of the schema documents with the token in every position.
SkipTags ==
    {"[auto] id", "[str, optional] note", "[list[str], optional] aliases",
     "[auto, int] rank", "[optional] extra", "[dict, auto] step"}

\* C3: a field whose tag has an auto or optional token (in any position), or
\* whose sequence template's element has one, is classified auto or optional
\* and yields no violation at or beneath it, whether it is absent, null or
\* of any type.
C3_SkipTagged ==
    /\ \A tag \in SkipTags : HasSkipToken(tag)
    /\ Done =>
          \A p \in EntryVisits :
              SkipTagged(p.sv) =>
                  /\ _classify(p.sv) \in {"auto", "optional"}
                  /\ SelectUnder(result.violations, Render(p.segs)) = <<>>

\* Three such fields of one record, the token after the base type or before
\* it or in a sequence template: one absent, one null, one an integer where
\* the tag says list[str].
C3_Witness ==
    /\ Done
    /\ \E p \in EntryVisits : SkipTagged(p.sv) /\ p.sv.t = "list" /\ Absent(p.obj, p.key)
    /\ \E p \in EntryVisits :
          /\ p.sv = PyStr("[auto, int] rank")
          /\ ~Absent(p.obj, p.key) /\ ValueOf(p.obj, p.key) = None
    /\ \E p \in EntryVisits :
          /\ p.sv = PyStr("[list[str], optional] aliases")
          /\ ~Absent(p.obj, p.key) /\ ValueOf(p.obj, p.key) = PyInt(3)

\* C4: a field whose description starts with [AUTO] or [OPTIONAL], in upper
\* case, yields no violation when it is absent from the entry.
C4_UpperCaseSkipped ==
    Done =>
        \A p \in EntryVisits :
            (/\ p.sv.t = "str"
             /\ (startswith(p.sv.v, "[AUTO]") \/ startswith(p.sv.v, "[OPTIONAL]"))
             /\ Absent(p.obj, p.key)) =>
                SelectUnder(result.violations, Render(p.segs)) = <<>>

\* The type tokens of a tag: its first token split on " or ".
TagTypes(schema_str) == type_tokens_of(_tag_parts(schema_str)[1])

\* The claim's acceptance rule, by the value's own type.
NumericOK(v, T) ==
    \/ ("bool" \in T /\ v.t = "bool")
    \/ ("int" \in T /\ v.t = "int")
    \/ ("float" \in T /\ v.t \in {"int", "float"})

\* C5: a required_numeric field that is present yields no violation when its
\* value is a boolean and bool is allowed, an integer and int or float is
\* allowed, or a float and float is allowed; otherwise exactly one
\* TypeError at its path.
C5_Numeric ==
    /\ TagTypes("[int or float] score") = {"int", "float"}
    /\ TagTypes("[bool] flag") = {"bool"}
    /\ TagTypes("[int] count") = {"int"}
    /\ TagTypes("[float] ratio") = {"float"}
    /\ Done =>
          \A p \in EntryVisits :
              (_classify(p.sv) = "required_numeric" /\ ~Absent(p.obj, p.key)) =>
                  LET under == SelectUnder(result.violations, Render(p.segs))
                  IN  IF NumericOK(ValueOf(p.obj, p.key), TagTypes(p.sv.v))
                      THEN under = <<>>
                      ELSE /\ Len(under) = 1
                           /\ under[1].field = Render(p.segs)
                           /\ under[1].violation_type = "TypeError"

\* An [int or float] field holds true and is rejected, beside a [bool] field
\* that holds true and is accepted.
C5_Witness ==
    /\ Done
    /\ \E p \in EntryVisits :
          /\ p.sv = PyStr("[int or float] score")
          /\ ~Absent(p.obj, p.key) /\ ValueOf(p.obj, p.key) = PyBool(TRUE)
          /\ Len(SelectUnder(result.violations, Render(p.segs))) = 1
    /\ \E p \in EntryVisits :
          /\ p.sv = PyStr("[bool] flag")
          /\ ~Absent(p.obj, p.key) /\ ValueOf(p.obj, p.key) = PyBool(TRUE)
          /\ Len(SelectUnder(result.violations, Render(p.segs))) = 0

\* The name rule of the claim: exactly `responses`, or the suffix `_content`.
MustBeNonEmpty(key) ==
    \/ key = "responses"
    \/ (Len(key) >= 8 /\ SubSeq(key, Len(key) - 7, Len(key)) = "_content")

\* A visit of a required list field that is present as a list.
ListVisit(p) ==
    /\ _classify(p.sv) \in {"required_list_str", "required_list_dict"}
    /\ ~Absent(p.obj, p.key)
    /\ ValueOf(p.obj, p.key).t = "list"

\* C6: a required list field present as a list has a ValueError at its path
\* exactly when its name is `responses` or ends with `_content` and the list
\* is empty (and then only one).
C6_NonEmptyByName ==
    Done =>
        \A p \in EntryVisits :
            ListVisit(p) =>
                LET IsEmptyViolation(v) ==
                        v.field = Render(p.segs) /\ v.violation_type = "ValueError"
                    found == SelectSeq(result.violations, IsEmptyViolation)
                IN  IF MustBeNonEmpty(p.key) /\ Len(ValueOf(p.obj, p.key).v) = 0
                    THEN Len(found) = 1
                    ELSE Len(found) = 0

\* An empty `_content` list inside an element of `responses`, which itself
\* has elements; both are faulted by name only.
C6_Witness ==
    /\ Done
    /\ \E p \in EntryVisits :
          /\ ListVisit(p) /\ Len(p.parent) > 0 /\ MustBeNonEmpty(p.key)
          /\ Len(ValueOf(p.obj, p.key).v) = 0
          /\ \E i \in 1..Len(result.violations) :
                /\ result.violations[i].field = Render(p.segs)
                /\ result.violations[i].violation_type = "ValueError"
    /\ \E p \in EntryVisits :
          /\ ListVisit(p) /\ p.key = "responses" /\ Len(ValueOf(p.obj, p.key).v) > 0

\* The paths of the elements of the list a visit's field holds.
ElemPaths(p) ==
    IF ~Absent(p.obj, p.key) /\ ValueOf(p.obj, p.key).t = "list"
    THEN {Render(Append(p.segs, IndexSeg(j - 1))) : j \in 1..Len(ValueOf(p.obj, p.key).v)}
    ELSE {}

\* C7: every violation carries the full path of what it faults: the visit
\* whose schema node it describes (or an element of that visit's list), keys
\* joined by "." with no leading dot, list elements as `[N]`.  Every absent
\* required field and every element that is not an object is reported under
\* exactly that path.
C7_FullPath ==
    Done =>
        /\ \A i \in 1..Len(result.violations) :
              LET v == result.violations[i]
              IN  \/ /\ v.field_desc = ItemDesc
                     /\ \/ (entry.t # "dict" /\ v.field = "")
                        \/ v.field \in {Render(q) : q \in NonObjectElems}
                  \/ \E p \in EntryVisits :
                        /\ v.field_desc = p.sv
                        /\ (v.field = Render(p.segs) \/ v.field \in ElemPaths(p))
        /\ \A p \in EntryVisits :
              (_classify(p.sv) \in RequiredKinds /\ Absent(p.obj, p.key)) =>
                  \E i \in 1..Len(result.violations) :
                      /\ result.violations[i].field = Render(p.segs)
                      /\ result.violations[i].field_desc = p.sv
        /\ \A q \in NonObjectElems :
              \E i \in 1..Len(result.violations) : result.violations[i].field = Render(q)

\* One record with a violation two objects deep and one in a list inside an
\* object inside the second element of a list.
C7_Witness ==
    /\ Done
    /\ \E i \in 1..Len(result.violations) :
          result.violations[i].field = "item_metadata.contributor.email"
    /\ \E i \in 1..Len(result.violations) :
          result.violations[i].field = "responses[1].info.notes_content[1]"

\* C8: a value that is not an object yields exactly one TypeError at its own
\* path and nothing beneath it, as the record root (validate_entry then
\* returns False with that one violation at "") or as an element of a
\* required object list.
C8_NonObject ==
    Done =>
        /\ entry.t # "dict" =>
              result = [is_valid |-> FALSE,
                        violations |-> <<violation("", ItemDesc, "TypeError")>>]
        /\ \A q \in NonObjectElems :
              SelectUnder(result.violations, Render(q))
                 = <<violation(Render(q), ItemDesc, "TypeError")>>

\* The second element of an object list is not an object.
C8_Witness ==
    /\ Done
    /\ \E q \in NonObjectElems : q[Len(q)].index = 1

\* The violations so far are in traversal order: those of an earlier field
\* of a mapping before those of a later one, a list's own before its
\* elements', an earlier element's before a later one's.
InTraversalOrder(vs) ==
    /\ \A p, q \in EntryVisits :
          (p.parent = q.parent /\ p.n < q.n) =>
              \A i, j \in 1..Len(vs) :
                  (Under(vs[i].field, Render(p.segs)) /\ Under(vs[j].field, Render(q.segs)))
                      => i < j
    /\ \A p \in EntryVisits :
          ListVisit(p) =>
              \A a, b \in 1..Len(ValueOf(p.obj, p.key).v) :
                  \A i, j \in 1..Len(vs) :
                      LET pa == Render(Append(p.segs, IndexSeg(a - 1)))
                          pb == Render(Append(p.segs, IndexSeg(b - 1)))
                      IN  /\ (a < b /\ Under(vs[i].field, pa) /\ Under(vs[j].field, pb))
                                => i < j
                          /\ (vs[i].field = Render(p.segs) /\ Under(vs[j].field, pa))
                                => i < j

\* A step of a validate_entry call leaves the entries of the list in place.
AppendOnly ==
    pc \in {"validate", "return"} =>
        /\ Len(violations') >= Len(violations)
        /\ SubSeq(violations', 1, Len(violations)) = violations

\* _validate handed a list that already holds entries leaves them as they
\* are and appends its own after them.
KeepsEntries ==
    Done => _validate(entry, _schema_cache, violations, "") = violations \o violations

\* C9: the violation sequence is in schema traversal order, and _validate
\* only appends to it.
C9_TraversalOrder ==
    /\ [](InTraversalOrder(violations) /\ KeepsEntries)
    /\ [][AppendOnly]_vars

\* The record is walked to its end with violations under two sibling fields
\* of a nested object and under two elements of one list.
C9_Witness ==
    /\ Done
    /\ \E p, q \in EntryVisits :
          /\ p.parent = q.parent /\ p.n < q.n /\ Len(p.parent) > 0
          /\ Len(SelectUnder(violations, Render(p.segs))) > 0
          /\ Len(SelectUnder(violations, Render(q.segs))) > 0
    /\ \E p \in EntryVisits :
          /\ ListVisit(p)
          /\ \E a, b \in 1..Len(ValueOf(p.obj, p.key).v) :
                /\ a < b
                /\ Len(SelectUnder(violations, Render(Append(p.segs, IndexSeg(a - 1))))) > 0
                /\ Len(SelectUnder(violations, Render(Append(p.segs, IndexSeg(b - 1))))) > 0

\* The element types a required_list_str field allows, when derivable.
ElemTypes(sv) ==
    LET allowed == allowed_of(inner_type_str_of(sv))
    IN  {allowed[i] : i \in 1..Len(allowed)}

\* The claim's rule for one element: str and dict by the element's type, the
\* numeric types by the predicates of a scalar numeric field.
ElemOK(elem, T) ==
    \/ (elem.t \in {"str", "dict"} /\ elem.t \in T)
    \/ NumericOK(elem, T)

\* C10: each element of a required_list_str field, present as a list with
\* derivable element types T, has exactly one TypeError at fieldPath[i] when
\* it fails the claim's rule for T, and none when it passes.
C10_ElementTypes ==
    Done =>
        \A p \in EntryVisits :
            (/\ _classify(p.sv) = "required_list_str"
             /\ ListVisit(p)
             /\ ElemTypes(p.sv) # {}) =>
                \A j \in 1..Len(ValueOf(p.obj, p.key).v) :
                    LET at == Render(Append(p.segs, IndexSeg(j - 1)))
                        IsAt(v) == v.field = at
                        found == SelectSeq(result.violations, IsAt)
                    IN  IF ElemOK(ValueOf(p.obj, p.key).v[j], ElemTypes(p.sv))
                        THEN Len(found) = 0
                        ELSE Len(found) = 1 /\ found[1].violation_type = "TypeError"

====
